---- MODULE Spec2Model ----
(***************************************************************************)
(* Binding layer of jsoneval-rs for React Native (C++ bridge + Android     *)
(* JNI glue).  The model covers the handle registry (handles,              *)
(* handlesMutex, handleCounter), the thread-per-call dispatcher runAsync,  *)
(* the marshaling of FFIResult descriptors and the settlement of the host  *)
(* promise by the JNI callbacks.  The evaluation engine behind the C ABI   *)
(* is an environment: every native entry point returns a                   *)
(* nondeterministically chosen descriptor.                                 *)
(*                                                                         *)
(* Texts that the code parses or copies (std::string results) are tuples   *)
(* of one-character strings; exception messages are plain strings.         *)
(***************************************************************************)
EXTENDS Integers, Sequences, FiniteSets, TLC

(***************************************************************************)
(* Bounds of the model.                                                    *)
(***************************************************************************)
NumCallers == 2      \* host threads of the process
NumHosts   == 1      \* host threads that run next to the workers (Spec, SpecAsync)
MaxCalls   == 2      \* asynchronous calls dispatched in one behaviour
MaxCreates == 2      \* native constructors that return an instance

Callers    == 1..NumCallers
Hosts      == 1..NumHosts
Calls      == 1..MaxCalls
HandleArgs == 0..(MaxCreates - 1)   \* n stands for the ID "handle_n"

(***************************************************************************)
(* uint64_t logic IDs and their conversion to jdouble                      *)
(* (json-eval-rn.cpp:211, static_cast<jdouble>(logicId)).  A uint64_t is   *)
(* the tuple of its bits, least significant first.  A double has a         *)
(* significand of 53 bits: the conversion keeps the 53 leading bits of the *)
(* value and rounds the rest to nearest, ties to even.  The value of the   *)
(* double, an integer below or equal to 2^64, is a tuple of 65 bits.       *)
(***************************************************************************)
U64Bits == 64
MantissaBits == 53

U64(ones) == [k \in 1..U64Bits |-> IF k \in ones THEN 1 ELSE 0]

ZeroId == U64({})

HighBit(b) ==
    IF \A k \in 1..Len(b) : b[k] = 0 THEN 0
    ELSE CHOOSE k \in 1..Len(b) : b[k] = 1 /\ \A j \in (k + 1)..Len(b) : b[j] = 0

\* The value of b with its s lowest bits cleared, as a tuple of 65 bits.
ClearLow(b, s) == [k \in 1..(U64Bits + 1) |-> IF k <= s \/ k > U64Bits THEN 0 ELSE b[k]]

\* v + 2^(k-1), for v with a zero bit at or above position k.
AddBit(v, k) ==
    LET j == CHOOSE x \in k..Len(v) : v[x] = 0 /\ \A y \in k..(x - 1) : v[y] = 1
    IN  [x \in 1..Len(v) |-> IF x < k THEN v[x] ELSE IF x < j THEN 0 ELSE IF x = j THEN 1 ELSE v[x]]

ToJDouble(b) ==
    LET s == HighBit(b) - MantissaBits
    IN  IF s <= 0 THEN ClearLow(b, 0)
        ELSE LET guard  == b[s] = 1
                 sticky == \E k \in 1..(s - 1) : b[k] = 1
                 odd    == b[s + 1] = 1
             IN  IF guard /\ (sticky \/ odd) THEN AddBit(ClearLow(b, s), s + 1)
                 ELSE ClearLow(b, s)

ZeroDouble == ToJDouble(ZeroId)

\* The IDs the native compiler returns here: 0, 7, 2^53, 2^53 + 1, 2^64 - 1.
LogicIds == {ZeroId, U64({1, 2, 3}), U64({54}), U64({1, 54}), U64(1..U64Bits)}

(***************************************************************************)
(* std::stoi, as used by the cacheLen callback (json-eval-rn.cpp:511).     *)
(* strtol semantics: leading white space is skipped, an optional sign is   *)
(* read, then the longest run of decimal digits; anything after it is      *)
(* ignored.  No digit: std::invalid_argument.  Value outside int:          *)
(* std::out_of_range.  The messages are those of libc++ (Android NDK).     *)
(***************************************************************************)
IntMax == 2147483647
IntMin == -2147483647 - 1

DigitChars == <<"0", "1", "2", "3", "4", "5", "6", "7", "8", "9">>

IsDigit(ch) == \E i \in 1..10 : DigitChars[i] = ch

DigitVal(ch) == (CHOOSE i \in 1..10 : DigitChars[i] = ch) - 1

IsSpace(ch) == ch \in {" ", "\t", "\n", "\r"}

RECURSIVE SkipSpaces(_, _)
SkipSpaces(s, i) ==
    IF i <= Len(s) /\ IsSpace(s[i]) THEN SkipSpaces(s, i + 1) ELSE i

\* Accumulates the digits from position i as a NEGATIVE number (the negative
\* range of int is the larger one); over is TRUE once the magnitude exceeds 2^31.
RECURSIVE AccDigits(_, _, _, _, _)
AccDigits(s, i, acc, n, over) ==
    IF i <= Len(s) /\ IsDigit(s[i])
    THEN LET d == DigitVal(s[i])
             fits == ~over /\ acc >= (IntMin + d) \div 10 + (IF (IntMin + d) % 10 = 0 THEN 0 ELSE 1)
         IN  AccDigits(s, i + 1, IF fits THEN acc * 10 - d ELSE acc, n + 1, ~fits)
    ELSE [neg |-> acc, digits |-> n, over |-> over]

StoiSaturating(s) ==
    LET i0   == SkipSpaces(s, 1)
        sgn  == IF i0 <= Len(s) /\ s[i0] \in {"-", "+"} THEN s[i0] ELSE ""
        i1   == IF sgn = "" THEN i0 ELSE i0 + 1
        a    == AccDigits(s, i1, 0, 0, FALSE)
    IN  IF a.digits = 0
        THEN [ok |-> FALSE, val |-> 0, what |-> "stoi: no conversion"]
        ELSE IF a.over \/ (sgn # "-" /\ a.neg = IntMin)
        THEN [ok |-> TRUE, val |-> IF sgn = "-" THEN IntMin ELSE IntMax, what |-> ""]
        ELSE [ok |-> TRUE, val |-> IF sgn = "-" THEN a.neg ELSE 0 - a.neg, what |-> ""]

Stoi(s) ==
    LET i0   == SkipSpaces(s, 1)
        sgn  == IF i0 <= Len(s) /\ s[i0] \in {"-", "+"} THEN s[i0] ELSE ""
        i1   == IF sgn = "" THEN i0 ELSE i0 + 1
        a    == AccDigits(s, i1, 0, 0, FALSE)
    IN  IF a.digits = 0
        THEN [ok |-> FALSE, val |-> 0, what |-> "stoi: no conversion"]
        ELSE IF a.over \/ (sgn # "-" /\ a.neg = IntMin)
        THEN [ok |-> FALSE, val |-> 0, what |-> "stoi: out of range"]
        ELSE [ok |-> TRUE, val |-> IF sgn = "-" THEN a.neg ELSE 0 - a.neg, what |-> ""]

(***************************************************************************)
(* The asynchronous operations of JsonEvalBridge.  shape is the form of    *)
(* the worker body:                                                        *)
(*   "two_step" evaluateAsync: evaluate, then get_evaluated_schema         *)
(*   "payload"  one native call, the payload or a default is returned      *)
(*   "fixed"    one native call, a fixed text is returned on success       *)
(* dflt is the text returned for an empty payload (or the fixed text),     *)
(* code the error code of the JNI call site, cb the JNI callback.          *)
(***************************************************************************)
TxtObj   == <<"{", "}">>
TxtArr   == <<"[", "]">>
TxtNull  == <<"n", "u", "l", "l">>
TxtFalse == <<"f", "a", "l", "s", "e">>
TxtZero  == <<"0">>
TxtEmpty == <<>>
TxtNoErrors ==
    <<"{", "\"", "h", "a", "s", "E", "r", "r", "o", "r", "\"", ":",
      "f", "a", "l", "s", "e", ",", "\"", "e", "r", "r", "o", "r", "s", "\"",
      ":", "[", "]", "}">>

OpRow(shape, dflt, code, cb) ==
    [shape |-> shape, dflt |-> dflt, code |-> code, cb |-> cb]

OpTable ==
    [ evaluateAsync |-> OpRow("two_step", TxtObj, "EVALUATE_ERROR", "generic"),
      runLogicAsync |-> OpRow("payload", TxtObj, "RUN_LOGIC_ERROR", "generic"),
      validateAsync |-> OpRow("payload", TxtObj, "VALIDATE_ERROR", "generic"),
      evaluateDependentsAsync |-> OpRow("payload", TxtObj, "EVALUATE_DEPENDENTS_ERROR", "generic"),
      getEvaluatedSchemaAsync |-> OpRow("payload", TxtObj, "GET_SCHEMA_ERROR", "generic"),
      getSchemaValueAsync |-> OpRow("payload", TxtObj, "GET_VALUE_ERROR", "generic"),
      getEvaluatedSchemaWithoutParamsAsync |-> OpRow("payload", TxtObj, "GET_SCHEMA_WITHOUT_PARAMS_ERROR", "generic"),
      getEvaluatedSchemaByPathAsync |-> OpRow("payload", TxtNull, "GET_EVALUATED_SCHEMA_BY_PATH_ERROR", "generic"),
      getEvaluatedSchemaByPathsAsync |-> OpRow("payload", TxtObj, "GET_EVALUATED_SCHEMA_BY_PATHS_ERROR", "generic"),
      getSchemaByPathAsync |-> OpRow("payload", TxtNull, "GET_SCHEMA_BY_PATH_ERROR", "generic"),
      getSchemaByPathsAsync |-> OpRow("payload", TxtObj, "GET_SCHEMA_BY_PATHS_ERROR", "generic"),
      reloadSchemaAsync |-> OpRow("fixed", TxtObj, "RELOAD_ERROR", "generic"),
      reloadSchemaMsgpackAsync |-> OpRow("fixed", TxtObj, "RELOAD_MSGPACK_ERROR", "generic"),
      reloadSchemaFromCacheAsync |-> OpRow("fixed", TxtObj, "RELOAD_CACHE_ERROR", "generic"),
      cacheStatsAsync |-> OpRow("payload", TxtObj, "CACHE_STATS_ERROR", "generic"),
      clearCacheAsync |-> OpRow("fixed", TxtObj, "CLEAR_CACHE_ERROR", "generic"),
      cacheLenAsync |-> OpRow("payload", TxtZero, "CACHE_LEN_ERROR", "cacheLen"),
      enableCacheAsync |-> OpRow("fixed", TxtEmpty, "ENABLE_CACHE_ERROR", "generic"),
      disableCacheAsync |-> OpRow("fixed", TxtEmpty, "DISABLE_CACHE_ERROR", "generic"),
      resolveLayoutAsync |-> OpRow("fixed", TxtObj, "RESOLVE_LAYOUT_ERROR", "generic"),
      compileAndRunLogicAsync |-> OpRow("payload", TxtNull, "COMPILE_AND_RUN_LOGIC_ERROR", "generic"),
      validatePathsAsync |-> OpRow("payload", TxtObj, "VALIDATE_PATHS_ERROR", "generic"),
      evaluateSubformAsync |-> OpRow("fixed", TxtObj, "EVALUATE_SUBFORM_ERROR", "generic"),
      validateSubformAsync |-> OpRow("payload", TxtNoErrors, "VALIDATE_SUBFORM_ERROR", "generic"),
      evaluateDependentsSubformAsync |-> OpRow("payload", TxtArr, "EVALUATE_DEPENDENTS_SUBFORM_ERROR", "generic"),
      resolveLayoutSubformAsync |-> OpRow("fixed", TxtObj, "RESOLVE_LAYOUT_SUBFORM_ERROR", "generic"),
      getEvaluatedSchemaSubformAsync |-> OpRow("payload", TxtObj, "GET_EVALUATED_SCHEMA_SUBFORM_ERROR", "generic"),
      getSchemaValueSubformAsync |-> OpRow("payload", TxtObj, "GET_SCHEMA_VALUE_SUBFORM_ERROR", "generic"),
      getEvaluatedSchemaWithoutParamsSubformAsync |-> OpRow("payload", TxtObj, "GET_SCHEMA_WITHOUT_PARAMS_SUBFORM_ERROR", "generic"),
      getEvaluatedSchemaByPathSubformAsync |-> OpRow("payload", TxtNull, "GET_SCHEMA_BY_PATH_SUBFORM_ERROR", "generic"),
      getEvaluatedSchemaByPathsSubformAsync |-> OpRow("payload", TxtObj, "GET_SCHEMA_BY_PATHS_SUBFORM_ERROR", "generic"),
      getSubformPathsAsync |-> OpRow("payload", TxtArr, "GET_SUBFORM_PATHS_ERROR", "generic"),
      getSchemaByPathSubformAsync |-> OpRow("payload", TxtNull, "GET_SCHEMA_BY_PATH_SUBFORM_ERROR", "generic"),
      getSchemaByPathsSubformAsync |-> OpRow("payload", TxtObj, "GET_SCHEMA_BY_PATHS_SUBFORM_ERROR", "generic"),
      hasSubformAsync |-> OpRow("payload", TxtFalse, "HAS_SUBFORM_ERROR", "generic") ]

AsyncOps == DOMAIN OpTable

\* The operations the behaviours dispatch: every shape and both callbacks.
DispatchOps == {"evaluateAsync", "cacheLenAsync", "enableCacheAsync"}

(***************************************************************************)
(* FFIResult descriptors.  error is <<>> for a null pointer and <<m>> for  *)
(* a pointer to the text m; data is <<>> for a null data_ptr and <<t>> for *)
(* a pointer to the bytes t (data_len = Len(t)).                           *)
(***************************************************************************)
ErrPtrs == {<<>>, <<"">>, <<"engine failure">>}

CacheLenTexts ==
    {<<"0">>, <<"1">>, <<"1", "0", "0", "0", "0">>, <<"x">>, <<"1", "2", "x">>,
     <<"2", "1", "4", "7", "4", "8", "3", "6", "4", "7">>,
     <<"2", "1", "4", "7", "4", "8", "3", "6", "4", "8">>,
     <<"9", "9", "9", "9", "9", "9", "9", "9", "9", "9", "9">>}

PayloadTexts == {<<"{", "a", "}">>}

DataPtrs(o) ==
    {<<>>, << <<>> >>} \cup
    {<<t>> : t \in (IF o = "cacheLenAsync" THEN CacheLenTexts ELSE PayloadTexts)}

FailureDescs == {[success |-> FALSE, error |-> e, data |-> <<>>] : e \in ErrPtrs}

SuccessDescs(o) == {[success |-> TRUE, error |-> <<>>, data |-> p] : p \in DataPtrs(o)}

\* The operations that take a subform path next to the handle.
SubformOps ==
    {"evaluateSubformAsync", "validateSubformAsync", "evaluateDependentsSubformAsync",
     "resolveLayoutSubformAsync", "getEvaluatedSchemaSubformAsync",
     "getSchemaValueSubformAsync", "getEvaluatedSchemaWithoutParamsSubformAsync",
     "getEvaluatedSchemaByPathSubformAsync", "getEvaluatedSchemaByPathsSubformAsync",
     "getSchemaByPathSubformAsync", "getSchemaByPathsSubformAsync", "hasSubformAsync"}

\* The message of the engine's subform-not-found failure.
SubformNotFoundMsg == "subform not found"

\* The engine's answer to a subform path that resolves to no nested
\* document: a failure descriptor carrying the subform-not-found message.
SubformNotFoundDesc == [success |-> FALSE, error |-> <<SubformNotFoundMsg>>, data |-> <<>>]

\* What a native entry point of operation o can return at its step-th call.
\* A step whose payload the bridge never reads returns the bare success
\* descriptor; an operation that takes a subform path can fail with the
\* subform-not-found descriptor.
NativeDescs(o, step) ==
    FailureDescs \cup
    (IF o \in SubformOps THEN {SubformNotFoundDesc} ELSE {}) \cup
    (IF OpTable[o].shape = "fixed" \/ (OpTable[o].shape = "two_step" /\ step = 1)
     THEN {[success |-> TRUE, error |-> <<>>, data |-> <<>>]}
     ELSE SuccessDescs(o))

(***************************************************************************)
(* The body of a worker after a native call returned descriptor d          *)
(* (json-eval-bridge.cpp:184-209 and the same lines of every operation).   *)
(*   throws/error  std::runtime_error(error) leaves the body               *)
(*   result        the text returned by the body                           *)
(*   frees         number of json_eval_free_result calls on d              *)
(*   continues     evaluateAsync goes on to its second native call         *)
(***************************************************************************)
ErrorTextDropped(d) == ""

ErrorTextUnchecked(d) == IF d.error = <<>> THEN "" ELSE d.error[1]

ErrorText(d) == IF d.error = <<>> THEN "Unknown error" ELSE d.error[1]

PayloadOrDefault(d, dflt) ==
    IF d.data # <<>> /\ Len(d.data[1]) > 0 THEN d.data[1] ELSE dflt

MarshalWith(o, step, d, freesOnFailure) ==
    IF ~d.success
    THEN [throws |-> TRUE, error |-> ErrorText(d), result |-> <<>>,
          frees |-> freesOnFailure, continues |-> FALSE,
          events |-> <<"copy_error">> \o [k \in 1..freesOnFailure |-> "free_result"]]
    ELSE IF OpTable[o].shape = "two_step" /\ step = 1
    THEN [throws |-> FALSE, error |-> "", result |-> <<>>,
          frees |-> 1, continues |-> TRUE, events |-> <<"free_result">>]
    ELSE IF OpTable[o].shape = "fixed"
    THEN [throws |-> FALSE, error |-> "", result |-> OpTable[o].dflt,
          frees |-> 1, continues |-> FALSE, events |-> <<"free_result">>]
    ELSE [throws |-> FALSE, error |-> "", result |-> PayloadOrDefault(d, OpTable[o].dflt),
          frees |-> 1, continues |-> FALSE, events |-> <<"copy_data", "free_result">>]

MarshalLeakOnFailure(o, step, d) == MarshalWith(o, step, d, 0)

MarshalRetryOnFailure(o, step, d) ==
    LET m == MarshalWith(o, step, d, 1)
    IN  IF ~d.success /\ step = 1
        THEN [m EXCEPT !.throws = FALSE, !.continues = TRUE]
        ELSE m

MarshalFreeFirst(o, step, d) ==
    LET m == MarshalWith(o, step, d, 1)
    IN  [m EXCEPT !.events = IF Len(@) = 2 THEN <<@[2], @[1]>> ELSE @]

Marshal(o, step, d) == MarshalWith(o, step, d, 1)

(***************************************************************************)
(* The JNI callbacks.  A callback reports what it did to the promise       *)
(* (settles), the JNI events in order, and whether a C++ exception left it.*)
(***************************************************************************)
NoValue     == [isInt |-> FALSE, text |-> <<>>, num |-> 0]
StrValue(t) == [isInt |-> FALSE, text |-> t, num |-> 0]
IntValue(n) == [isInt |-> TRUE, text |-> <<>>, num |-> n]

Resolved(v)      == [kind |-> "resolve", code |-> "", msg |-> "", value |-> v]
Rejected(c, m)   == [kind |-> "reject", code |-> c, msg |-> m, value |-> NoValue]

\* runAsyncWithPromise's lambda (json-eval-rn.cpp:95-107).
GenericCallback(code, result, error) ==
    IF error = ""
    THEN [throws |-> FALSE, what |-> "", settles |-> <<Resolved(StrValue(result))>>,
          events |-> <<"attach", "resolve", "delete_global_ref", "detach">>]
    ELSE [throws |-> FALSE, what |-> "", settles |-> <<Rejected(code, error)>>,
          events |-> <<"attach", "reject", "delete_global_ref", "detach">>]

CacheLenCallbackResolveFirst(result, error) ==
    IF error = ""
    THEN LET p == Stoi(result)
         IN  IF p.ok
             THEN [throws |-> FALSE, what |-> "", settles |-> <<Resolved(IntValue(p.val))>>,
                   events |-> <<"attach", "resolve", "delete_global_ref", "detach">>]
             ELSE [throws |-> TRUE, what |-> p.what, settles |-> <<Resolved(StrValue(result))>>,
                   events |-> <<"attach", "resolve", "throw">>]
    ELSE [throws |-> FALSE, what |-> "", settles |-> <<Rejected("CACHE_LEN_ERROR", error)>>,
          events |-> <<"attach", "reject", "delete_global_ref", "detach">>]

\* nativeCacheLenAsync's lambda (json-eval-rn.cpp:505-521): std::stoi runs
\* before the promise is touched and may throw out of the callback.
CacheLenCallback(result, error) ==
    IF error = ""
    THEN LET p == Stoi(result)
         IN  IF p.ok
             THEN [throws |-> FALSE, what |-> "", settles |-> <<Resolved(IntValue(p.val))>>,
                   events |-> <<"attach", "resolve", "delete_global_ref", "detach">>]
             ELSE [throws |-> TRUE, what |-> p.what, settles |-> <<>>,
                   events |-> <<"attach", "throw">>]
    ELSE [throws |-> FALSE, what |-> "", settles |-> <<Rejected("CACHE_LEN_ERROR", error)>>,
          events |-> <<"attach", "reject", "delete_global_ref", "detach">>]

Callback(o, result, error) ==
    IF OpTable[o].cb = "cacheLen"
    THEN CacheLenCallback(result, error)
    ELSE GenericCallback(OpTable[o].code, result, error)

(***************************************************************************)
(* The thread body of runAsync after func() ended                          *)
(* (json-eval-bridge.cpp:156-161).  func returned result, or threw a       *)
(* std::exception with message error.  An exception leaving the callback   *)
(* inside the try block is caught by the same handler, which calls the     *)
(* callback again; an exception leaving the callback inside the handler    *)
(* leaves the thread function: std::terminate.                             *)
(***************************************************************************)
RunAsyncThread(o, threw, result, error) ==
    LET first == IF threw THEN Callback(o, <<>>, error) ELSE Callback(o, result, "")
    IN  IF ~first.throws
        THEN [settles |-> first.settles, events |-> first.events,
              invocations |-> 1, aborted |-> FALSE]
        ELSE IF threw
        THEN [settles |-> first.settles, events |-> first.events \o <<"terminate">>,
              invocations |-> 1, aborted |-> TRUE]
        ELSE LET second == Callback(o, <<>>, first.what)
             IN  [settles |-> first.settles \o second.settles,
                  events |-> first.events \o second.events \o
                             (IF second.throws THEN <<"terminate">> ELSE <<>>),
                  invocations |-> 2, aborted |-> second.throws]

\* The promise after the settlements ss were applied to it in order.
RECURSIVE ApplySettles(_, _)
ApplySettles(tok, ss) ==
    IF ss = <<>> THEN tok
    ELSE ApplySettles(
           [resolved |-> tok.resolved + (IF Head(ss).kind = "resolve" THEN 1 ELSE 0),
            rejected |-> tok.rejected + (IF Head(ss).kind = "reject" THEN 1 ELSE 0),
            last |-> Head(ss)],
           Tail(ss))

Pending == [kind |-> "none", code |-> "", msg |-> "", value |-> NoValue]

NewToken == [resolved |-> 0, rejected |-> 0, last |-> Pending]

(***************************************************************************)
(* State.                                                                  *)
(***************************************************************************)
VARIABLES
    handles,        \* static std::map handles: ID number -> instance
    handleCounter,  \* static int handleCounter
    mutex,          \* owner of handlesMutex
    nextInst,       \* next instance the native constructors hand out
    freeCount,      \* instance -> number of json_eval_free calls on it
    issued,         \* IDs returned by the create operations, in order
    cl,             \* per host thread: its synchronous call, or what the last one returned
    w               \* per asynchronous call: its worker thread and promise

vars == <<handles, handleCounter, mutex, nextInst, freeCount, issued, cl, w>>

NoOwner      == <<"none", 0>>
CallerTid(i) == <<"caller", i>>
WorkerTid(c) == <<"worker", c>>

NoInst == 0

CreateOps == {"create", "createFromMsgpack", "createFromCache"}

\* Synchronous operations that take a handle ID.
SyncOps == {"compileLogic", "isCacheEnabled", "setTimezoneOffset", "cancel", "dispose"}

\* Those of them that throw std::runtime_error("Invalid handle") on an unknown ID.
RaisingSyncOps == {"compileLogic", "setTimezoneOffset"}

NativePcs == {"native1", "native2"}

\* What a synchronous call gave back: op the operation, found the result of
\* handles.find, stale whether the ID had been disposed when the call was
\* made, raised/msg the exception, val the value returned, ncalls the native
\* calls it made.
\* What version() did: ptr the const char* json_eval_version returned (<<>>
\* is the null pointer), text the std::string given back, released the number
\* of json_eval_free_string and json_eval_free_result calls on the pointer.
NoVer == [ptr |-> <<>>, text |-> "", released |-> 0]

\* The pointers json_eval_version returns here.
VersionPtrs == {<<>>, <<"">>, <<"0.0.57">>}

\* id is the uint64_t json_eval_compile_logic returned and jval the jdouble
\* nativeCompileLogic gives back to the host.
NoRet ==
    [op |-> "none", found |-> FALSE, stale |-> FALSE, raised |-> FALSE,
     msg |-> "", val |-> 0, ncalls |-> 0, id |-> ZeroId, jval |-> ZeroDouble, ver |-> NoVer]

NoCall == <<0, 0>>

\* stale: the ID had been disposed when the call was made.  during: the
\* worker and the number of its native call that was executing on the
\* instance of the ID when cancel was called.
IdleCaller ==
    [pc |-> "idle", op |-> "none", h |-> 0, inst |-> NoInst, stale |-> FALSE,
     during |-> NoCall, ret |-> NoRet]

UnusedCall ==
    [pc |-> "unused", op |-> "none", h |-> 0, inst |-> NoInst,
     threw |-> FALSE, result |-> <<>>, error |-> "",
     descs |-> <<>>, failed |-> FALSE, emptyPayload |-> FALSE, notFound |-> FALSE, noMsg |-> FALSE, data |-> <<>>, stale |-> FALSE, ncalls |-> 0,
     tok |-> NewToken, events |-> <<>>, invocations |-> 0]

Init ==
    /\ handles = [k \in {} |-> NoInst]
    /\ handleCounter = 0
    /\ mutex = NoOwner
    /\ nextInst = 1
    /\ freeCount = [x \in 1..MaxCreates |-> 0]
    /\ issued = <<>>
    /\ cl = [i \in Callers |-> IdleCaller]
    /\ w = [c \in Calls |-> UnusedCall]

(***************************************************************************)
(* Registry helpers.                                                       *)
(***************************************************************************)
HandleFoundStale(h) == h < handleCounter

\* handles.find(handleId) != handles.end()
HandleFound(h) == h \in DOMAIN handles

\* it->second
InstanceOf(h) == IF h \in DOMAIN handles THEN handles[h] ELSE NoInst

NextHandleIdFromSize == Cardinality(DOMAIN handles)

\* "handle_" + std::to_string(handleCounter++): the number of the new ID
NextHandleId == handleCounter

\* handles[handleId] = handle
Register(id, x) == [k \in (DOMAIN handles) \cup {id} |-> IF k = id THEN x ELSE handles[k]]

DisposeNoErase(h) == handles

\* handles.erase(it)
DisposeErase(h) == [k \in (DOMAIN handles) \ {h} |-> handles[k]]

\* The handle ID h was issued and disposed since.
Disposed(h) == h < handleCounter /\ h \notin DOMAIN handles

\* The native call, if any, that a worker is executing on the instance of h.
InFlightOn(h) ==
    IF \E c \in Calls : w[c].pc \in NativePcs /\ h \in DOMAIN handles /\ w[c].inst = handles[h]
    THEN LET c == CHOOSE b \in Calls : w[b].pc \in NativePcs /\ w[b].inst = handles[h]
         IN  <<c, w[c].ncalls>>
    ELSE NoCall

CreateFailure(kind) ==
    CASE kind = "create" -> "Failed to create JSONEval instance"
      [] kind = "createFromMsgpack" -> "Failed to create JSONEval instance from MessagePack"
      [] kind = "createFromCache" -> "Failed to create JSONEval instance from cache"

\* std::terminate was called: the process is gone and no thread runs any more.
Terminated == \E c \in Calls : w[c].pc = "aborted"

(***************************************************************************)
(* Synchronous operations, run on the calling host thread.                 *)
(***************************************************************************)
\* create / createFromMsgpack / createFromCache enter the native constructor
\* (json-eval-bridge.cpp:89, 110, 136); no lock is held.
CallCreate(i, kind) ==
    /\ ~Terminated
    /\ cl[i].pc = "idle"
    /\ cl' = [cl EXCEPT ![i] = [IdleCaller EXCEPT !.pc = "ctor", !.op = kind]]
    /\ UNCHANGED <<handles, handleCounter, mutex, nextInst, freeCount, issued, w>>

CtorReturnNoNullCheck(i, ok) ==
    /\ ~Terminated
    /\ cl[i].pc = "ctor"
    /\ IF ok
       THEN /\ nextInst <= MaxCreates
            /\ cl' = [cl EXCEPT ![i].pc = "wait_lock", ![i].inst = nextInst]
            /\ nextInst' = nextInst + 1
       ELSE /\ cl' = [cl EXCEPT ![i].pc = "wait_lock", ![i].inst = NoInst]
            /\ UNCHANGED nextInst
    /\ UNCHANGED <<handles, handleCounter, mutex, freeCount, issued, w>>

\* The constructor returns: null raises (lines 91-93), an instance goes on
\* to the lock_guard of line 95.
CtorReturn(i, ok) ==
    /\ ~Terminated
    /\ cl[i].pc = "ctor"
    /\ IF ok
       THEN /\ nextInst <= MaxCreates
            /\ cl' = [cl EXCEPT ![i].pc = "wait_lock", ![i].inst = nextInst]
            /\ nextInst' = nextInst + 1
       ELSE /\ cl' = [cl EXCEPT ![i] = [IdleCaller EXCEPT
                          !.ret = [NoRet EXCEPT !.op = cl[i].op, !.raised = TRUE,
                                                !.msg = CreateFailure(cl[i].op)]]]
            /\ UNCHANGED nextInst
    /\ UNCHANGED <<handles, handleCounter, mutex, freeCount, issued, w>>

\* compileLogic, isCacheEnabled, setTimezoneOffset, cancel, dispose are
\* called: the first statement of each is the lock_guard.
SyncCall(i, o, h) ==
    /\ ~Terminated
    /\ cl[i].pc = "idle"
    /\ cl' = [cl EXCEPT ![i] = [IdleCaller EXCEPT !.pc = "wait_lock", !.op = o, !.h = h,
                                  !.stale = Disposed(h),
                                  !.during = IF o = "cancel" THEN InFlightOn(h) ELSE NoCall]]
    /\ UNCHANGED <<handles, handleCounter, mutex, nextInst, freeCount, issued, w>>

CallerAcquireNoLock(i) ==
    /\ ~Terminated
    /\ cl[i].pc = "wait_lock"
    /\ mutex' = CallerTid(i)
    /\ cl' = [cl EXCEPT ![i].pc = "locked"]
    /\ UNCHANGED <<handles, handleCounter, nextInst, freeCount, issued, w>>

\* std::lock_guard<std::mutex> lock(handlesMutex) on a host thread.
CallerAcquire(i) ==
    /\ ~Terminated
    /\ cl[i].pc = "wait_lock"
    /\ mutex = NoOwner
    /\ mutex' = CallerTid(i)
    /\ cl' = [cl EXCEPT ![i].pc = "locked"]
    /\ UNCHANGED <<handles, handleCounter, nextInst, freeCount, issued, w>>

CreateRegisterKeepsCounter(i) ==
    /\ ~Terminated
    /\ cl[i].pc = "locked"
    /\ cl[i].op \in CreateOps
    /\ LET id == NextHandleId
       IN  /\ handles' = Register(id, cl[i].inst)
           /\ handleCounter' = handleCounter
           /\ issued' = Append(issued, id)
           /\ cl' = [cl EXCEPT ![i] = [IdleCaller EXCEPT
                         !.ret = [NoRet EXCEPT !.op = "create", !.found = TRUE, !.val = id]]]
    /\ mutex' = NoOwner
    /\ UNCHANGED <<nextInst, freeCount, w>>

\* Lines 96-99 (122-125, 147-150): the new ID is registered and returned.
CreateRegister(i) ==
    /\ ~Terminated
    /\ cl[i].pc = "locked"
    /\ cl[i].op \in CreateOps
    /\ LET id == NextHandleId
       IN  /\ handles' = Register(id, cl[i].inst)
           /\ handleCounter' = handleCounter + 1
           /\ issued' = Append(issued, id)
           /\ cl' = [cl EXCEPT ![i] = [IdleCaller EXCEPT
                         !.ret = [NoRet EXCEPT !.op = "create", !.found = TRUE, !.val = id]]]
    /\ mutex' = NoOwner
    /\ UNCHANGED <<nextInst, freeCount, w>>

SyncMissAlwaysRaises(o, stale) ==
    [op |-> o, found |-> FALSE, stale |-> stale,
     raised |-> TRUE, msg |-> "Invalid handle",
     val |-> 0, ncalls |-> 0, id |-> ZeroId, jval |-> ZeroDouble, ver |-> NoVer]

\* What a synchronous operation gives back for an ID that handles.find does
\* not know: compileLogic (line 220) and setTimezoneOffset (line 1432) throw,
\* isCacheEnabled returns false (line 870), cancel and dispose just return.
SyncMiss(o, stale) ==
    [op |-> o, found |-> FALSE, stale |-> stale,
     raised |-> o \in RaisingSyncOps,
     msg |-> IF o \in RaisingSyncOps THEN "Invalid handle" ELSE "",
     val |-> 0, ncalls |-> 0, id |-> ZeroId, jval |-> ZeroDouble, ver |-> NoVer]

\* handles.find in a synchronous operation: an unknown ID ends the call,
\* a known one enters the native call with it->second.
SyncLookup(i) ==
    /\ ~Terminated
    /\ cl[i].pc = "locked"
    /\ cl[i].op \in SyncOps
    /\ IF HandleFound(cl[i].h)
       THEN /\ cl' = [cl EXCEPT ![i].pc = "native", ![i].inst = InstanceOf(cl[i].h)]
            /\ UNCHANGED mutex
       ELSE /\ cl' = [cl EXCEPT ![i] = [IdleCaller EXCEPT
                          !.ret = SyncMiss(cl[i].op, cl[i].stale)]]
            /\ mutex' = NoOwner
    /\ UNCHANGED <<handles, handleCounter, nextInst, freeCount, issued, w>>

\* What the native entry point of a synchronous operation can return.
SyncNativeOuts(o) ==
    CASE o = "isCacheEnabled" -> {0, 1}
      [] OTHER -> {0}

\* What a synchronous operation gives back after its native call returned out.
SyncHit(o, stale, out) ==
    [op |-> o, found |-> TRUE, stale |-> stale,
     raised |-> FALSE, msg |-> "",
     val |-> out, ncalls |-> 1, id |-> ZeroId, jval |-> ZeroDouble, ver |-> NoVer]

\* What compileLogic gives back after json_eval_compile_logic returned id:
\* the bridge throws on 0 and returns id otherwise (json-eval-bridge.cpp:
\* 223-228); nativeCompileLogic converts the ID to jdouble, and returns 0.0
\* with a pending RuntimeException when the bridge threw (json-eval-rn.cpp:
\* 210-217).
CompileHit(stale, id) ==
    [op |-> "compileLogic", found |-> TRUE, stale |-> stale,
     raised |-> (id = ZeroId),
     msg |-> IF id = ZeroId THEN "Failed to compile logic (received ID 0)" ELSE "",
     val |-> 0, ncalls |-> 1, id |-> id,
     jval |-> IF id = ZeroId THEN ZeroDouble ELSE ToJDouble(id), ver |-> NoVer]

\* The native call of a synchronous operation returns and the operation
\* ends; dispose has called json_eval_free and erases the mapping.
SyncNativeReturn(i, out) ==
    /\ ~Terminated
    /\ cl[i].pc = "native"
    /\ cl[i].op # "compileLogic"
    /\ out \in SyncNativeOuts(cl[i].op)
    /\ IF cl[i].op = "dispose"
       THEN /\ freeCount' = [freeCount EXCEPT ![cl[i].inst] = @ + 1]
            /\ handles' = DisposeErase(cl[i].h)
       ELSE UNCHANGED <<freeCount, handles>>
    /\ mutex' = NoOwner
    /\ cl' = [cl EXCEPT ![i] = [IdleCaller EXCEPT !.ret = SyncHit(cl[i].op, cl[i].stale, out)]]
    /\ UNCHANGED <<handleCounter, nextInst, issued, w>>

\* json_eval_compile_logic returns id and compileLogic ends.
CompileLogicReturn(i, id) ==
    /\ ~Terminated
    /\ cl[i].pc = "native"
    /\ cl[i].op = "compileLogic"
    /\ mutex' = NoOwner
    /\ cl' = [cl EXCEPT ![i] = [IdleCaller EXCEPT !.ret = CompileHit(cl[i].stale, id)]]
    /\ UNCHANGED <<handles, handleCounter, nextInst, freeCount, issued, w>>

\* version() (json-eval-bridge.cpp:1448-1452): no lock_guard, no handle; the
\* string is statically owned by the engine and is not released.
VersionReleasing(i, p) ==
    /\ ~Terminated
    /\ cl[i].pc = "idle"
    /\ cl' = [cl EXCEPT ![i].ret = [NoRet EXCEPT !.op = "version",
                  !.ver = [ptr |-> p, text |-> IF p = <<>> THEN "unknown" ELSE p[1],
                           released |-> 1]]]
    /\ UNCHANGED <<handles, handleCounter, mutex, nextInst, freeCount, issued, w>>

Version(i, p) ==
    /\ ~Terminated
    /\ cl[i].pc = "idle"
    /\ cl' = [cl EXCEPT ![i].ret = [NoRet EXCEPT !.op = "version",
                  !.ver = [ptr |-> p, text |-> IF p = <<>> THEN "unknown" ELSE p[1],
                           released |-> 0]]]
    /\ UNCHANGED <<handles, handleCounter, mutex, nextInst, freeCount, issued, w>>

(***************************************************************************)
(* Asynchronous operations.                                                *)
(***************************************************************************)
\* A host thread dispatches call c: the JNI entry copies the arguments,
\* takes a global reference to the promise (json-eval-rn.cpp:93, 502) and
\* runAsync starts a detached thread (json-eval-bridge.cpp:155-162).  The
\* host thread returns at once.  Calls are numbered in dispatch order.
Dispatch(i, c, o, h) ==
    /\ ~Terminated
    /\ cl[i].pc = "idle"
    /\ w[c].pc = "unused"
    /\ \A b \in Calls : b < c => w[b].pc # "unused"
    /\ w' = [w EXCEPT ![c] = [UnusedCall EXCEPT !.pc = "start", !.op = o, !.h = h,
                                !.stale = Disposed(h),
                                !.events = <<"new_global_ref", "thread_start">>]]
    /\ UNCHANGED <<handles, handleCounter, mutex, nextInst, freeCount, issued, cl>>

WorkerAcquireInOrder(c) ==
    /\ ~Terminated
    /\ w[c].pc = "start"
    /\ \A b \in Calls : b < c => w[b].pc # "start"
    /\ mutex = NoOwner
    /\ mutex' = WorkerTid(c)
    /\ w' = [w EXCEPT ![c].pc = "locked", ![c].events = Append(@, "lock")]
    /\ UNCHANGED <<handles, handleCounter, nextInst, freeCount, issued, cl>>

WorkerAcquireNoLock(c) ==
    /\ ~Terminated
    /\ w[c].pc = "start"
    /\ mutex' = WorkerTid(c)
    /\ w' = [w EXCEPT ![c].pc = "locked", ![c].events = Append(@, "lock")]
    /\ UNCHANGED <<handles, handleCounter, nextInst, freeCount, issued, cl>>

\* std::lock_guard<std::mutex> lock(handlesMutex) at the top of the worker body.
WorkerAcquire(c) ==
    /\ ~Terminated
    /\ w[c].pc = "start"
    /\ mutex = NoOwner
    /\ mutex' = WorkerTid(c)
    /\ w' = [w EXCEPT ![c].pc = "locked", ![c].events = Append(@, "lock")]
    /\ UNCHANGED <<handles, handleCounter, nextInst, freeCount, issued, cl>>

FinishSettlesLocked(rec, threw, result, error) ==
    LET r == RunAsyncThread(rec.op, threw, result, error)
    IN  [rec EXCEPT !.pc = IF r.aborted THEN "aborted" ELSE "done",
                    !.h = 0, !.inst = NoInst,
                    !.threw = threw, !.result = result, !.error = error,
                    !.tok = ApplySettles(@, r.settles),
                    !.events = @ \o r.events \o <<"unlock">>,
                    !.invocations = r.invocations]

\* The worker thread after its body ended by returning result or by throwing
\* error: the lock_guard is gone, the rest of runAsync's thread body runs
\* (the callback settles the promise) and the thread ends, or the process is
\* terminated by an exception that leaves the thread function.
Finish(rec, threw, result, error) ==
    LET r == RunAsyncThread(rec.op, threw, result, error)
    IN  [rec EXCEPT !.pc = IF r.aborted THEN "aborted" ELSE "done",
                    !.h = 0, !.inst = NoInst,
                    !.threw = threw, !.result = result, !.error = error,
                    !.tok = ApplySettles(@, r.settles),
                    !.events = @ \o <<"unlock">> \o r.events,
                    !.invocations = r.invocations]

\* handles.find in the worker body: an unknown ID throws "Invalid handle",
\* a known one enters the first native call with it->second.
WorkerLookup(c) ==
    /\ ~Terminated
    /\ w[c].pc = "locked"
    /\ IF HandleFound(w[c].h)
       THEN /\ w' = [w EXCEPT ![c].pc = "native1", ![c].inst = InstanceOf(w[c].h),
                              ![c].ncalls = @ + 1,
                              ![c].events = Append(@, "native_call")]
            /\ UNCHANGED mutex
       ELSE /\ w' = [w EXCEPT ![c] = Finish(@, TRUE, <<>>, "Invalid handle")]
            /\ mutex' = NoOwner
    /\ UNCHANGED <<handles, handleCounter, nextInst, freeCount, issued, cl>>

WorkerNativeReturnUnlocksBetween(c, d) ==
    /\ ~Terminated
    /\ w[c].pc \in NativePcs
    /\ d \in NativeDescs(w[c].op, IF w[c].pc = "native1" THEN 1 ELSE 2)
    /\ LET m   == Marshal(w[c].op, IF w[c].pc = "native1" THEN 1 ELSE 2, d)
           rec == [w[c] EXCEPT !.descs = Append(@, m.frees),
                               !.failed = ~d.success,
                               !.emptyPayload = d.success /\ PayloadOrDefault(d, <<>>) = <<>>,
                               !.notFound = (d.error = <<SubformNotFoundMsg>>),
                               !.noMsg = (~d.success /\ d.error = <<>>),
                               !.data = d.data,
                               !.events = @ \o <<"native_return">> \o m.events]
       IN  IF m.continues
           THEN /\ w' = [w EXCEPT ![c] = [rec EXCEPT !.pc = "native2", !.ncalls = @ + 1,
                                                     !.events = Append(@, "native_call")]]
                /\ mutex' = NoOwner
           ELSE /\ w' = [w EXCEPT ![c] = Finish(rec, m.throws, m.result, m.error)]
                /\ mutex' = NoOwner
    /\ UNCHANGED <<handles, handleCounter, nextInst, freeCount, issued, cl>>

\* A native call of the worker returns descriptor d and the body marshals
\* it: either it goes on to the second native call (evaluateAsync) or the
\* body ends, by return or by throw.
WorkerNativeReturn(c, d) ==
    /\ ~Terminated
    /\ w[c].pc \in NativePcs
    /\ d \in NativeDescs(w[c].op, IF w[c].pc = "native1" THEN 1 ELSE 2)
    /\ LET m   == Marshal(w[c].op, IF w[c].pc = "native1" THEN 1 ELSE 2, d)
           rec == [w[c] EXCEPT !.descs = Append(@, m.frees),
                               !.failed = ~d.success,
                               !.emptyPayload = d.success /\ PayloadOrDefault(d, <<>>) = <<>>,
                               !.notFound = (d.error = <<SubformNotFoundMsg>>),
                               !.noMsg = (~d.success /\ d.error = <<>>),
                               !.data = d.data,
                               !.events = @ \o <<"native_return">> \o m.events]
       IN  IF m.continues
           THEN /\ w' = [w EXCEPT ![c] = [rec EXCEPT !.pc = "native2", !.ncalls = @ + 1,
                                                     !.events = Append(@, "native_call")]]
                /\ UNCHANGED mutex
           ELSE /\ w' = [w EXCEPT ![c] = Finish(rec, m.throws, m.result, m.error)]
                /\ mutex' = NoOwner
    /\ UNCHANGED <<handles, handleCounter, nextInst, freeCount, issued, cl>>

(***************************************************************************)
(* Behaviours.                                                             *)
(* Spec races every synchronous operation of a host thread with workers    *)
(* whose native calls succeed without payload or fail with a message.     SpecSync has several host threads and every       *)
(* synchronous operation, and no worker.  SpecAsync dispatches every       *)
(* operation of DispatchOps with every descriptor the engine can return,   *)
(* next to create and dispose.                                             *)
(***************************************************************************)
CoarseDescs ==
    {[success |-> FALSE, error |-> <<"engine failure">>, data |-> <<>>],
     [success |-> TRUE, error |-> <<>>, data |-> <<>>]}

AllDescs == FailureDescs \cup UNION {SuccessDescs(o) : o \in DispatchOps}

Next ==
    \/ \E i \in Hosts, kind \in CreateOps : CallCreate(i, kind)
    \/ \E i \in Hosts, ok \in BOOLEAN : CtorReturn(i, ok)
    \/ \E i \in Hosts, o \in SyncOps, h \in HandleArgs : SyncCall(i, o, h)
    \/ \E i \in Hosts : CallerAcquire(i)
    \/ \E i \in Hosts : CreateRegister(i)
    \/ \E i \in Hosts : SyncLookup(i)
    \/ \E i \in Hosts, out \in {0, 1} : SyncNativeReturn(i, out)
    \/ \E i \in Hosts, id \in LogicIds : CompileLogicReturn(i, id)
    \/ \E i \in Hosts, c \in Calls, o \in DispatchOps, h \in HandleArgs : Dispatch(i, c, o, h)
    \/ \E c \in Calls : WorkerAcquire(c)
    \/ \E c \in Calls : WorkerLookup(c)
    \/ \E c \in Calls, d \in CoarseDescs : WorkerNativeReturn(c, d)

Spec == Init /\ [][Next]_vars

NextSync ==
    \/ \E i \in Callers, kind \in CreateOps : CallCreate(i, kind)
    \/ \E i \in Callers, ok \in BOOLEAN : CtorReturn(i, ok)
    \/ \E i \in Callers, o \in SyncOps, h \in HandleArgs : SyncCall(i, o, h)
    \/ \E i \in Callers : CallerAcquire(i)
    \/ \E i \in Callers : CreateRegister(i)
    \/ \E i \in Callers : SyncLookup(i)
    \/ \E i \in Callers, out \in {0, 1} : SyncNativeReturn(i, out)
    \/ \E i \in Callers, id \in LogicIds : CompileLogicReturn(i, id)
    \/ \E i \in Callers, p \in VersionPtrs : Version(i, p)

SpecSync == Init /\ [][NextSync]_vars

NextAsync ==
    \/ \E i \in Hosts : CallCreate(i, "create")
    \/ \E i \in Hosts, ok \in BOOLEAN : CtorReturn(i, ok)
    \/ \E i \in Hosts, h \in HandleArgs : SyncCall(i, "dispose", h)
    \/ \E i \in Hosts : CallerAcquire(i)
    \/ \E i \in Hosts : CreateRegister(i)
    \/ \E i \in Hosts : SyncLookup(i)
    \/ \E i \in Hosts : SyncNativeReturn(i, 0)
    \/ \E i \in Hosts, c \in Calls, o \in DispatchOps, h \in HandleArgs : Dispatch(i, c, o, h)
    \/ \E c \in Calls : WorkerAcquire(c)
    \/ \E c \in Calls : WorkerLookup(c)
    \/ \E c \in Calls, d \in AllDescs : WorkerNativeReturn(c, d)

SpecAsync == Init /\ [][NextAsync]_vars

(***************************************************************************)
(* SpecMarshal starts after a create has returned "handle_0" and           *)
(* dispatches every asynchronous operation, one call after the other, with *)
(* every descriptor its native entry point can return.                     *)
(***************************************************************************)
InitLive ==
    /\ handles = [k \in {0} |-> 1]
    /\ handleCounter = 1
    /\ mutex = NoOwner
    /\ nextInst = 2
    /\ freeCount = [x \in 1..MaxCreates |-> 0]
    /\ issued = <<0>>
    /\ cl = [i \in Callers |-> IdleCaller]
    /\ w = [c \in Calls |-> UnusedCall]

OpDescs == UNION {NativeDescs(o, 1) \cup SuccessDescs(o) : o \in AsyncOps}

\* The host dispatches a call once the promises dispatched before are settled.
DispatchAwaited(i, c, o, h) ==
    /\ \A b \in Calls : w[b].pc \in {"unused", "done"}
    /\ Dispatch(i, c, o, h)

NextMarshal ==
    \/ \E i \in Hosts, c \in Calls, o \in AsyncOps, h \in HandleArgs : DispatchAwaited(i, c, o, h)
    \/ \E c \in Calls : WorkerAcquire(c)
    \/ \E c \in Calls : WorkerLookup(c)
    \/ \E c \in Calls, d \in OpDescs : WorkerNativeReturn(c, d)

SpecMarshal == InitLive /\ [][NextMarshal]_vars

(***************************************************************************)
(* evaluateLogicAsync (json-eval-bridge.cpp:303-330) takes no handle: its  *)
(* worker body has no lock_guard and no handles.find, it calls             *)
(* json_eval_evaluate_logic_pure at once.  The callback is the caller's;   *)
(* the model records the arguments runAsync hands to it (result, error).   *)
(***************************************************************************)
LogicDescs == FailureDescs \cup SuccessDescs("evaluateLogicAsync")

\* Lines 315-328: a failure throws its message, a success returns the
\* payload or "null" for an empty one; the descriptor is freed once.
LogicMarshal(d) ==
    IF ~d.success
    THEN [throws |-> TRUE, error |-> ErrorText(d), result |-> <<>>,
          events |-> <<"copy_error", "free_result">>]
    ELSE [throws |-> FALSE, error |-> "", result |-> PayloadOrDefault(d, TxtNull),
          events |-> <<"copy_data", "free_result">>]

\* A host thread dispatches evaluateLogicAsync: runAsync starts the thread.
DispatchLogic(i, c) ==
    /\ ~Terminated
    /\ cl[i].pc = "idle"
    /\ w[c].pc = "unused"
    /\ \A b \in Calls : b < c => w[b].pc # "unused"
    /\ w' = [w EXCEPT ![c] = [UnusedCall EXCEPT !.pc = "logic_start",
                                !.op = "evaluateLogicAsync",
                                !.events = <<"thread_start">>]]
    /\ UNCHANGED <<handles, handleCounter, mutex, nextInst, freeCount, issued, cl>>

LogicCallUnderLock(c) ==
    /\ ~Terminated
    /\ w[c].pc = "logic_start"
    /\ mutex = NoOwner
    /\ mutex' = WorkerTid(c)
    /\ w' = [w EXCEPT ![c].pc = "logic_native", ![c].ncalls = @ + 1,
                      ![c].events = Append(@, "native_call")]
    /\ UNCHANGED <<handles, handleCounter, nextInst, freeCount, issued, cl>>

\* Line 313: the worker enters json_eval_evaluate_logic_pure.
LogicCall(c) ==
    /\ ~Terminated
    /\ w[c].pc = "logic_start"
    /\ w' = [w EXCEPT ![c].pc = "logic_native", ![c].ncalls = @ + 1,
                      ![c].events = Append(@, "native_call")]
    /\ UNCHANGED <<handles, handleCounter, mutex, nextInst, freeCount, issued, cl>>

\* json_eval_evaluate_logic_pure returns descriptor d, the body ends and
\* runAsync invokes the callback with (result, "") or ("", message).
LogicReturn(c, d) ==
    /\ ~Terminated
    /\ w[c].pc = "logic_native"
    /\ d \in LogicDescs
    /\ LET m == LogicMarshal(d)
       IN  w' = [w EXCEPT ![c].pc = "done",
                          ![c].descs = Append(@, 1),
                          ![c].failed = ~d.success,
                          ![c].emptyPayload = d.success /\ PayloadOrDefault(d, <<>>) = <<>>,
                          ![c].noMsg = (~d.success /\ d.error = <<>>),
                          ![c].data = d.data,
                          ![c].threw = m.throws, ![c].result = m.result, ![c].error = m.error,
                          ![c].invocations = 1,
                          ![c].events = @ \o <<"native_return">> \o m.events \o <<"callback">>]
    /\ UNCHANGED <<handles, handleCounter, mutex, nextInst, freeCount, issued, cl>>

(***************************************************************************)
(* SpecLogic races evaluateLogicAsync and the constructors with a host     *)
(* thread's create and dispose and with evaluateAsync workers that hold    *)
(* the lock inside their native calls.                                     *)
(***************************************************************************)
NextLogic ==
    \/ \E i \in Hosts, kind \in CreateOps : CallCreate(i, kind)
    \/ \E i \in Hosts, ok \in BOOLEAN : CtorReturn(i, ok)
    \/ \E i \in Hosts, h \in HandleArgs : SyncCall(i, "dispose", h)
    \/ \E i \in Hosts : CallerAcquire(i)
    \/ \E i \in Hosts : CreateRegister(i)
    \/ \E i \in Hosts : SyncLookup(i)
    \/ \E i \in Hosts : SyncNativeReturn(i, 0)
    \/ \E i \in Hosts, c \in Calls, h \in HandleArgs : Dispatch(i, c, "evaluateAsync", h)
    \/ \E c \in Calls : WorkerAcquire(c)
    \/ \E c \in Calls : WorkerLookup(c)
    \/ \E c \in Calls, d \in CoarseDescs : WorkerNativeReturn(c, d)
    \/ \E i \in Hosts, c \in Calls : DispatchLogic(i, c)
    \/ \E c \in Calls : LogicCall(c)
    \/ \E c \in Calls, d \in LogicDescs : LogicReturn(c, d)

SpecLogic == Init /\ [][NextLogic]_vars

(***************************************************************************)
(* Worker threads and the host threads that hold handlesMutex are          *)
(* scheduled fairly and every native call returns.                         *)
(***************************************************************************)
Fairness ==
    /\ \A c \in Calls : SF_vars(WorkerAcquire(c))
    /\ \A c \in Calls : WF_vars(WorkerLookup(c))
    /\ \A c \in Calls : WF_vars(\E d \in AllDescs : WorkerNativeReturn(c, d))
    /\ \A i \in Hosts : WF_vars(CreateRegister(i))
    /\ \A i \in Hosts : WF_vars(SyncLookup(i))
    /\ \A i \in Hosts : WF_vars(SyncNativeReturn(i, 0))

FairSpecAsync == SpecAsync /\ Fairness

\* The same, with the host thread's lock_guard fairly served as well.
FairSpecLock == SpecAsync /\ Fairness /\ \A i \in Hosts : SF_vars(CallerAcquire(i))

(***************************************************************************)
(* Properties.                                                             *)
(***************************************************************************)
Settlements(c) == w[c].tok.resolved + w[c].tok.rejected

Ended(c) == w[c].pc \in {"done", "aborted"}

\* C1: the promise of every dispatched asynchronous call is settled at most
\* once: never resolved and rejected, never resolved twice, never rejected
\* twice, and a call that was not dispatched settles nothing, so N dispatched
\* calls make at most N settlements.
C1_SettledAtMostOnce ==
    /\ \A c \in Calls : Settlements(c) <= 1
    /\ \A c \in Calls : w[c].pc \in {"unused", "start", "locked", "native1", "native2"}
                            => Settlements(c) = 0

\* C1 witness: a cacheLen callback was invoked twice (std::stoi threw in the
\* first invocation) and rejected its promise once, next to another call
\* that resolved its own.
C1_Witness ==
    \E c, b \in Calls :
        /\ c # b
        /\ w[c].op = "cacheLenAsync" /\ w[c].invocations = 2
        /\ w[c].tok.rejected = 1 /\ w[c].tok.resolved = 0
        /\ w[b].pc = "done" /\ w[b].tok.resolved = 1

\* C2: no completion is lost: under fair scheduling and terminating native
\* calls every dispatched asynchronous call eventually settles its promise.
C2_NoCompletionLost ==
    \A c \in Calls : (w[c].pc = "start") ~> (Settlements(c) >= 1)

\* C3: once dispose(h) has returned, an operation called on h makes no
\* native call; every asynchronous operation rejects its promise with
\* "Invalid handle" and the code of its call site, compileLogic and
\* setTimezoneOffset raise "Invalid handle", isCacheEnabled returns false
\* and cancel returns normally.
C3_DisposedHandleReported ==
    /\ \A c \in Calls : w[c].stale =>
          /\ w[c].ncalls = 0
          /\ Ended(c) =>
                /\ w[c].tok.rejected = 1 /\ w[c].tok.resolved = 0
                /\ w[c].tok.last.msg = "Invalid handle"
                /\ w[c].tok.last.code = OpTable[w[c].op].code
    /\ \A i \in Callers : cl[i].stale => cl[i].pc # "native"
    /\ \A i \in Callers : cl[i].ret.stale /\ cl[i].ret.op \in SyncOps \ {"dispose"} =>
          /\ cl[i].ret.ncalls = 0
          /\ cl[i].ret.op \in RaisingSyncOps =>
                cl[i].ret.raised /\ cl[i].ret.msg = "Invalid handle"
          /\ cl[i].ret.op = "isCacheEnabled" => ~cl[i].ret.raised /\ cl[i].ret.val = 0
          /\ cl[i].ret.op = "cancel" => ~cl[i].ret.raised

\* C3 as stated: once dispose(h) has returned, every operation called on h
\* (asynchronous, compileLogic, isCacheEnabled, setTimezoneOffset, cancel)
\* reports "Invalid handle" and makes no native call.
C3_EveryOperationReportsInvalidHandle ==
    /\ \A c \in Calls : w[c].stale =>
          /\ w[c].ncalls = 0
          /\ Ended(c) => w[c].tok.rejected = 1 /\ w[c].tok.last.msg = "Invalid handle"
    /\ \A i \in Callers : cl[i].ret.stale /\ cl[i].ret.op \in SyncOps \ {"dispose"} =>
          /\ cl[i].ret.ncalls = 0
          /\ cl[i].ret.raised /\ cl[i].ret.msg = "Invalid handle"

\* C3 witness: isCacheEnabled was called on a disposed ID and returned, and
\* an asynchronous call dispatched on a disposed ID has ended.
C3_Witness ==
    \E i \in Callers, c \in Calls :
        /\ cl[i].ret.op = "isCacheEnabled" /\ cl[i].ret.stale
        /\ w[c].stale /\ w[c].pc = "done"

Freed == {x \in DOMAIN freeCount : freeCount[x] >= 1}

\* C4: no ID is returned by two create calls, also after its first holder
\* was disposed, and the handles that are live at one time have pairwise
\* different IDs: every created instance that was not disposed is registered
\* under an ID of its own.
C4_UniqueIds ==
    /\ \A a, b \in 1..Len(issued) : a # b => issued[a] # issued[b]
    /\ \A h1, h2 \in DOMAIN handles : h1 # h2 => handles[h1] # handles[h2]
    /\ Cardinality(DOMAIN handles) = Len(issued) - Cardinality(Freed)
    /\ \A i \in Callers : cl[i].ret.op = "create" /\ cl[i].ret.found =>
          \E a \in 1..Len(issued) : issued[a] = cl[i].ret.val

\* C4 witness: a second ID was issued after the holder of the first one was
\* disposed.
C4_Witness ==
    /\ Len(issued) = 2
    /\ issued[1] \notin DOMAIN handles
    /\ issued[2] \in DOMAIN handles

\* C5: an asynchronous call whose native call returned a failure descriptor,
\* whatever its error text, rejects its promise with the code of its call
\* site and a non-empty message and never resolves it.
C5_FailureRejects ==
    \A c \in Calls : Ended(c) /\ w[c].failed =>
        /\ w[c].tok.rejected = 1 /\ w[c].tok.resolved = 0
        /\ w[c].tok.last.code = OpTable[w[c].op].code
        /\ w[c].tok.last.msg # ""

\* C6: every descriptor a native entry point returned was passed to
\* json_eval_free_result exactly once, whether it reported success or
\* failure; evaluateAsync does so for both of its descriptors.
C6_DescriptorsFreedOnce ==
    \A c \in Calls :
        /\ \A k \in 1..Len(w[c].descs) : w[c].descs[k] = 1
        /\ Len(w[c].descs) = w[c].ncalls - (IF w[c].pc \in NativePcs THEN 1 ELSE 0)

\* C6 witness: an evaluateAsync call whose second native call failed has
\* ended with both descriptors released.
C6_Witness ==
    \E c \in Calls :
        /\ w[c].op = "evaluateAsync" /\ Ended(c)
        /\ w[c].failed /\ w[c].descs = <<1, 1>>

DisposeEnds(i) == cl[i].op = "dispose" /\ cl[i].pc \in {"locked", "native"} /\ cl'[i].pc = "idle"

\* C7: dispose never raises; a dispose that finds the ID removes the mapping
\* and calls json_eval_free on its instance once; a dispose of an unknown or
\* already disposed ID makes no native call and leaves the table and the
\* counter unchanged; no instance is freed twice.
C7_DisposeIdempotent ==
    /\ [](\A x \in DOMAIN freeCount : freeCount[x] <= 1)
    /\ [][\A i \in Callers : DisposeEnds(i) =>
             /\ ~cl'[i].ret.raised
             /\ handleCounter' = handleCounter
             /\ cl[i].h \notin DOMAIN handles'
             /\ IF cl[i].pc = "native"
                THEN /\ cl[i].h \in DOMAIN handles
                     /\ freeCount' = [freeCount EXCEPT ![cl[i].inst] = @ + 1]
                     /\ cl'[i].ret.ncalls = 1
                ELSE /\ handles' = handles
                     /\ freeCount' = freeCount
                     /\ cl'[i].ret.ncalls = 0]_vars

\* C7 witness: a dispose of an already disposed ID has returned.
C7_Witness ==
    \E i \in Callers :
        /\ cl[i].ret.op = "dispose" /\ cl[i].ret.stale /\ ~cl[i].ret.found
        /\ Freed # {}

\* The threads inside a handle-taking native entry point with instance x.
NativeOn(x) ==
    {WorkerTid(c) : c \in {b \in Calls : w[b].pc \in NativePcs /\ w[b].inst = x}} \cup
    {CallerTid(i) : i \in {j \in Callers : cl[j].pc = "native" /\ cl[j].inst = x}}

\* C8: at no time are two threads inside handle-taking native entry points
\* for the same handle, be they workers or synchronous operations.
C8_NativeCallsExclusive ==
    \A x \in DOMAIN freeCount : Cardinality(NativeOn(x)) <= 1

\* C8 witness: a worker is inside a native call on a handle while another
\* worker and a synchronous operation on the same handle are at the lock.
C8_Witness ==
    \E c, b \in Calls, i \in Callers :
        /\ c # b
        /\ w[c].pc \in NativePcs
        /\ w[b].pc = "start" /\ w[b].h = w[c].h
        /\ cl[i].pc = "wait_lock" /\ cl[i].op \in SyncOps /\ cl[i].h = w[c].h

\* C9: the calling context never blocks: no host thread waits for the
\* registry lock while a worker holds it during a native call.
C9_CallerNeverWaits ==
    \A i \in Callers : cl[i].pc = "wait_lock" =>
        ~ \E c \in Calls : mutex = WorkerTid(c) /\ w[c].pc \in NativePcs

\* C10: when cancel(h) was called while a worker's native call on h was
\* executing, json_eval_cancel is invoked before that native call returned.
C10_CancelDuringCall ==
    \A i \in Callers :
        cl[i].op = "cancel" /\ cl[i].pc = "native" /\ cl[i].during # NoCall =>
            /\ w[cl[i].during[1]].pc \in NativePcs
            /\ w[cl[i].during[1]].ncalls = cl[i].during[2]

C12_NullConstructorRaises ==
    /\ [](\A h \in DOMAIN handles : handles[h] # NoInst)
    /\ [](\A i \in Callers : cl[i].op \in CreateOps /\ cl[i].pc \in {"wait_lock", "locked"}
             => cl[i].inst # NoInst)
    /\ [](\A i \in Callers : cl[i].ret.op \in CreateOps /\ cl[i].ret.raised =>
             /\ ~cl[i].ret.found
             /\ cl[i].ret.msg = CreateFailure(cl[i].ret.op))
    /\ [][\A i \in Callers : cl[i].pc = "ctor" /\ cl'[i].pc = "idle" =>
             /\ cl'[i].ret.raised
             /\ handles' = handles /\ handleCounter' = handleCounter
             /\ issued' = issued /\ mutex' = mutex]_vars

\* C12 witness: createFromCache raised on a null instance while the table
\* holds a handle.
C12_Witness ==
    \E i \in Callers :
        /\ cl[i].ret.raised
        /\ cl[i].ret.msg = "Failed to create JSONEval instance from cache"
        /\ DOMAIN handles # {}

\* C13: every exception raised inside a worker (invalid handle, native
\* failure, failure while the result is marshaled) is caught at the worker
\* boundary and becomes a rejection of the call's promise with the code of
\* the call site and the exception's message; no exception leaves the
\* worker thread.
C13_WorkerExceptionsRejected ==
    \A c \in Calls :
        /\ w[c].pc # "aborted"
        /\ w[c].pc = "done" /\ (w[c].threw \/ w[c].invocations = 2) =>
              /\ w[c].tok.rejected = 1 /\ w[c].tok.resolved = 0
              /\ w[c].tok.last.code = OpTable[w[c].op].code
              /\ w[c].threw => w[c].tok.last.msg = w[c].error

\* The positions of event e in the history of call c, and of its settlements.
EventIdx(c, e) == {k \in 1..Len(w[c].events) : w[c].events[k] = e}

SettleIdx(c) == EventIdx(c, "resolve") \cup EventIdx(c, "reject")

\* C14: for every asynchronous call the global reference to the promise is
\* taken before the worker is started, the promise is never touched after
\* the reference was deleted, and once the worker thread has ended the
\* reference has been deleted exactly once, after the settlement, on every
\* path.
C14_GlobalRefLifecycle ==
    \A c \in Calls :
        /\ w[c].pc # "unused" =>
              /\ EventIdx(c, "new_global_ref") = {1}
              /\ EventIdx(c, "thread_start") = {2}
        /\ Cardinality(EventIdx(c, "delete_global_ref")) <= 1
        /\ \A d \in EventIdx(c, "delete_global_ref") :
              /\ \A k \in SettleIdx(c) : k < d
              /\ SettleIdx(c) # {}
        /\ Ended(c) => Cardinality(EventIdx(c, "delete_global_ref")) = 1

\* C15: the worker touches the promise only between attaching to the VM and
\* detaching from it, and a worker thread that attached has detached when it
\* has ended.
C15_AttachDetachBracket ==
    \A c \in Calls :
        /\ \A k \in SettleIdx(c) :
              \E a \in EventIdx(c, "attach") :
                  /\ a < k
                  /\ \A d \in EventIdx(c, "detach") : d < a \/ d > k
        /\ Ended(c) =>
              \A a \in EventIdx(c, "attach") : \E d \in EventIdx(c, "detach") : d > a

\* The defaults the specification documents for an empty or absent payload.
DocumentedDefault ==
    [ evaluateDependentsAsync |-> TxtArr,
      validateAsync |-> TxtNoErrors,
      getSubformPathsAsync |-> TxtArr,
      hasSubformAsync |-> TxtFalse,
      getEvaluatedSchemaAsync |-> TxtObj,
      getSchemaValueAsync |-> TxtObj,
      getEvaluatedSchemaWithoutParamsAsync |-> TxtObj ]

\* C16: when a native call succeeds with an empty or absent payload the
\* promise is resolved with the documented default of the operation: [] for
\* evaluate-dependents, {"hasError":false,"errors":[]} for validate, [] for
\* list-subform-paths, false for has-subform, the number 0 for cache length
\* and {} for the schema getters.
C16_DocumentedDefaults ==
    \A c \in Calls : w[c].pc = "done" /\ w[c].emptyPayload =>
        /\ w[c].op \in DOMAIN DocumentedDefault =>
              /\ w[c].tok.resolved = 1
              /\ w[c].tok.last.value = StrValue(DocumentedDefault[w[c].op])
        /\ w[c].op = "cacheLenAsync" =>
              /\ w[c].tok.resolved = 1
              /\ w[c].tok.last.value = IntValue(0)

\* Decimal texts: the digits of n >= 0, and whether a text of digits (no
\* leading zero) denotes a value of the int range.
RECURSIVE ToDecimal(_)
ToDecimal(n) ==
    IF n < 10 THEN <<DigitChars[n + 1]>>
    ELSE Append(ToDecimal(n \div 10), DigitChars[(n % 10) + 1])

AllDigits(t) == Len(t) >= 1 /\ \A k \in 1..Len(t) : IsDigit(t[k])

IntMaxText == ToDecimal(IntMax)

FitsInt(t) ==
    \/ Len(t) < Len(IntMaxText)
    \/ /\ Len(t) = Len(IntMaxText)
       /\ \/ t = IntMaxText
          \/ \E k \in 1..Len(t) :
                /\ \A j \in 1..(k - 1) : t[j] = IntMaxText[j]
                /\ DigitVal(t[k]) < DigitVal(IntMaxText[k])

CacheLenReturned(c) ==
    w[c].op = "cacheLenAsync" /\ w[c].pc = "done" /\ ~w[c].threw /\ AllDigits(w[c].result)

\* C17: when json_eval_cache_len succeeds with the decimal text of an
\* integer n with 0 <= n <= 2147483647 the promise is resolved with the
\* number n, and an empty payload resolves with 0; a decimal text above
\* that range is rejected with CACHE_LEN_ERROR.
C17_CacheLenRoundTrip ==
    \A c \in Calls : CacheLenReturned(c) =>
        /\ FitsInt(w[c].result) =>
              /\ w[c].tok.resolved = 1 /\ w[c].tok.rejected = 0
              /\ w[c].tok.last.value.isInt
              /\ w[c].tok.last.value.num >= 0
              /\ ToDecimal(w[c].tok.last.value.num) = w[c].result
        /\ ~FitsInt(w[c].result) =>
              /\ w[c].tok.rejected = 1 /\ w[c].tok.resolved = 0
              /\ w[c].tok.last.code = "CACHE_LEN_ERROR"
        /\ w[c].emptyPayload => w[c].tok.last.value = IntValue(0)

\* C17 as stated: the decimal text of every non-negative integer n resolves
\* the promise with the number n.
C17_EveryDecimalRoundTrips ==
    \A c \in Calls : CacheLenReturned(c) =>
        /\ w[c].tok.resolved = 1
        /\ w[c].tok.last.value.isInt
        /\ ToDecimal(w[c].tok.last.value.num) = w[c].result

\* C17 witness: one cacheLen call resolved with 10000 and another one was
\* rejected for a text above the int range.
C17_Witness ==
    \E c, b \in Calls :
        /\ CacheLenReturned(c) /\ w[c].tok.last.value = IntValue(10000)
        /\ CacheLenReturned(b) /\ ~FitsInt(w[b].result) /\ w[b].tok.rejected = 1

\* A numeric text: an optional minus sign followed by decimal digits only.
NumericText(t) ==
    \/ AllDigits(t)
    \/ Len(t) >= 2 /\ t[1] = "-" /\ AllDigits(SubSeq(t, 2, Len(t)))

\* C18: when json_eval_cache_len succeeds with a payload that is not a
\* numeric text, the cacheLen promise is rejected exactly once with code
\* CACHE_LEN_ERROR and a non-empty message, is never resolved, and its
\* global reference is deleted exactly once.
C18_NonNumericCacheLenRejected ==
    \A c \in Calls :
        /\ w[c].op = "cacheLenAsync" /\ w[c].pc = "done" /\ ~w[c].threw
        /\ ~NumericText(w[c].result)
        => /\ w[c].tok.rejected = 1 /\ w[c].tok.resolved = 0
           /\ w[c].tok.last.code = "CACHE_LEN_ERROR"
           /\ w[c].tok.last.msg # ""
           /\ Cardinality(EventIdx(c, "delete_global_ref")) = 1

C20_CompileLogicReturnsNativeId ==
    \A i \in Callers : cl[i].ret.op = "compileLogic" =>
        /\ ~cl[i].ret.found =>
              cl[i].ret.raised /\ cl[i].ret.msg = "Invalid handle" /\ cl[i].ret.ncalls = 0
        /\ cl[i].ret.found /\ cl[i].ret.id = ZeroId => cl[i].ret.raised
        /\ cl[i].ret.found /\ cl[i].ret.id # ZeroId =>
              ~cl[i].ret.raised /\ cl[i].ret.jval = ClearLow(cl[i].ret.id, 0)
        /\ ~cl[i].ret.raised => cl[i].ret.jval # ZeroDouble

\* Positions j < k of the history of call c belong to the same descriptor
\* when no native call returned between them.
ReturnIdx(c) == EventIdx(c, "native_return")

SameDescriptor(c, j, k) == \A r \in ReturnIdx(c) : ~(j < r /\ r <= k)

CopyIdx(c) == EventIdx(c, "copy_data") \cup EventIdx(c, "copy_error")

\* C21: the payload of a descriptor, and its error text on failure, is
\* copied before json_eval_free_result is called on that descriptor: no
\* field of a descriptor is read after the descriptor was released, and a
\* payload or an error text that reaches the callback was copied.
C21_CopiedBeforeFree ==
    \A c \in Calls :
        /\ \A f \in EventIdx(c, "free_result"), k \in CopyIdx(c) :
              SameDescriptor(c, f, k) /\ SameDescriptor(c, k, f) => k < f
        /\ \A k \in CopyIdx(c) : \E r \in ReturnIdx(c) : r < k
        /\ w[c].pc = "done" /\ w[c].failed => EventIdx(c, "copy_error") # {}
        /\ w[c].pc = "done" /\ ~w[c].threw /\ OpTable[w[c].op].shape # "fixed" =>
              EventIdx(c, "copy_data") # {}

\* C21 witness: one call copied a payload and another one an error text,
\* each before its descriptor was released.
C21_Witness ==
    \E c, b \in Calls :
        /\ w[c].pc = "done" /\ w[c].result = <<"{", "a", "}">>
        /\ \E k \in EventIdx(c, "copy_data") : \E f \in EventIdx(c, "free_result") : k < f
        /\ w[b].pc = "done" /\ w[b].failed
        /\ \E k \in EventIdx(b, "copy_error") : \E f \in EventIdx(b, "free_result") : k < f

\* The thread that holds the registry lock is inside its critical section.
HoldsLock(t) == mutex = t

\* C22: the handle table and the ID counter are read and written only by a
\* thread that holds the registry lock: a thread that is past its lock_guard
\* holds handlesMutex, every step that inserts into or erases from the table
\* or increments the counter is taken by the host thread that holds the
\* lock, and every lookup is made by the thread that holds it.
C22_RegistryUnderLock ==
    /\ [](\A i \in Callers : cl[i].pc \in {"locked", "native"} => HoldsLock(CallerTid(i)))
    /\ [](\A c \in Calls : w[c].pc \in {"locked"} \cup NativePcs => HoldsLock(WorkerTid(c)))
    /\ [][ /\ (handles' # handles \/ handleCounter' # handleCounter) =>
                \E i \in Callers :
                    /\ HoldsLock(CallerTid(i))
                    /\ cl[i].pc \in {"locked", "native"} /\ cl'[i].pc = "idle"
           /\ \A i \in Callers :
                cl[i].pc = "locked" /\ cl'[i].pc # "locked" => HoldsLock(CallerTid(i))
           /\ \A c \in Calls :
                w[c].pc = "locked" /\ w'[c].pc # "locked" => HoldsLock(WorkerTid(c)) ]_vars

\* C22 witness: a handle was registered and disposed, and a worker looks the
\* table up while a host thread waits for the lock.
C22_Witness ==
    \E c \in Calls, i \in Callers :
        /\ handleCounter >= 1 /\ \E h \in HandleArgs : Disposed(h)
        /\ w[c].pc = "locked" /\ HoldsLock(WorkerTid(c))
        /\ cl[i].pc = "wait_lock"

\* C23: when a native call reports failure and its descriptor carries no
\* error message, the promise is rejected once with the message
\* "Unknown error" and the code of the call site, and the failed descriptor
\* was released, once, before the rejection.
C23_UnknownErrorSubstituted ==
    \A c \in Calls : w[c].noMsg /\ w[c].pc = "done" =>
        /\ w[c].tok.rejected = 1 /\ w[c].tok.resolved = 0
        /\ w[c].tok.last.msg = "Unknown error"
        /\ w[c].tok.last.code = OpTable[w[c].op].code
        /\ w[c].descs[Len(w[c].descs)] = 1
        /\ \A k \in EventIdx(c, "reject") :
              \E f \in EventIdx(c, "free_result") : SameDescriptor(c, f, k) /\ f < k

\* C23 witness: the first step of evaluateAsync and cacheLenAsync both failed
\* without a message and both promises are rejected.
C23_Witness ==
    \E c, b \in Calls :
        /\ w[c].noMsg /\ w[c].op = "evaluateAsync" /\ w[c].ncalls = 1 /\ w[c].tok.rejected = 1
        /\ w[b].noMsg /\ w[b].op = "cacheLenAsync" /\ w[b].tok.rejected = 1

\* The native calls a dispatched call of operation o makes at most.
MaxNativeCalls(o) == IF OpTable[o].shape = "two_step" THEN 2 ELSE 1

\* C24: a dispatched call invokes the entry point of its operation at most
\* once (evaluateAsync: json_eval_evaluate at most once, then
\* json_eval_get_evaluated_schema at most once), and makes no native call
\* after one of its native calls reported failure.
C24_NoRetry ==
    \A c \in Calls :
        /\ w[c].ncalls <= (IF w[c].pc = "unused" THEN 0 ELSE MaxNativeCalls(w[c].op))
        /\ Cardinality(EventIdx(c, "native_call")) = w[c].ncalls
        /\ \A k \in EventIdx(c, "copy_error") : \A n \in EventIdx(c, "native_call") : n < k
        /\ w[c].pc = "native2" => w[c].op = "evaluateAsync" /\ ~w[c].failed

\* C24 witness: one evaluateAsync call made both of its native calls and
\* another one stopped after its first native call failed.
C24_Witness ==
    \E c, b \in Calls :
        /\ w[c].op = "evaluateAsync" /\ w[c].pc = "done" /\ w[c].ncalls = 2
        /\ w[b].op = "evaluateAsync" /\ w[b].pc = "done" /\ w[b].ncalls = 1 /\ w[b].failed

\* C25: version() gives back the native string, or "unknown" when the native
\* call returns null; it never passes the string to json_eval_free_string or
\* json_eval_free_result, takes no registry lock and touches no handle: a
\* call of version() changes neither the lock nor the table nor the counter,
\* and frees no instance.
C25_VersionStaticString ==
    /\ [](\A i \in Callers : cl[i].ret.op = "version" =>
            /\ cl[i].ret.ver.released = 0
            /\ cl[i].ret.ver.text = (IF cl[i].ret.ver.ptr = <<>> THEN "unknown"
                                     ELSE cl[i].ret.ver.ptr[1])
            /\ ~cl[i].ret.raised /\ cl[i].ret.ncalls = 0)
    /\ [][\A i \in Callers :
            cl'[i].ret.op = "version" /\ cl'[i] # cl[i] /\ cl'[i].pc = "idle" /\ cl[i].pc = "idle" =>
                UNCHANGED <<handles, handleCounter, mutex, freeCount, issued>>]_vars

\* C25 witness: version() returned "unknown" for a null pointer to one host
\* thread while another host thread held the registry lock inside a native
\* call.
C25_Witness ==
    \E i, j \in Callers :
        /\ cl[i].ret.op = "version" /\ cl[i].ret.ver.ptr = <<>> /\ cl[i].ret.ver.text = "unknown"
        /\ cl[j].pc = "native" /\ mutex = CallerTid(j)

\* The threads inside a native entry point with instance x other than
\* json_eval_free.
UsingInstance(x) ==
    {WorkerTid(c) : c \in {b \in Calls : w[b].pc \in NativePcs /\ w[b].inst = x}} \cup
    {CallerTid(i) : i \in {j \in Callers :
                              cl[j].pc = "native" /\ cl[j].inst = x /\ cl[j].op # "dispose"}}

\* C26: json_eval_free is never executed on an instance while a native call
\* on that instance is in progress, and no native entry point is inside a
\* call, or enters one, with an instance that was passed to json_eval_free,
\* whatever the interleaving of dispose with running and waiting workers and
\* synchronous operations.
C26_NoUseAfterFree ==
    /\ [](\A x \in Freed : NativeOn(x) = {})
    /\ [][\A x \in DOMAIN freeCount : freeCount'[x] > freeCount[x] =>
             /\ UsingInstance(x) = {}
             /\ \E i \in Callers : NativeOn(x) = {CallerTid(i)} /\ HoldsLock(CallerTid(i))]_vars

\* C26 witness: an instance was freed after a worker had completed a native
\* call on it, and a worker that was dispatched before the dispose and ran
\* after it was rejected without a native call.
C26_Witness ==
    \E c, b \in Calls, x \in Freed :
        /\ w[c].pc = "done" /\ w[c].ncalls >= 1
        /\ w[b].pc = "done" /\ ~w[b].stale /\ w[b].ncalls = 0
        /\ w[b].threw /\ w[b].error = "Invalid handle"

\* Calls a and b were dispatched in this order on the same handle and both
\* threads are at the lock_guard of their bodies.
BothAtLock(a, b) ==
    a < b /\ w[a].pc = "start" /\ w[b].pc = "start" /\ w[a].h = w[b].h

\* C27: dispatch order gives no execution order: when two calls dispatched
\* one after the other on the same handle both wait at the registry lock and
\* the lock is free, either of them can take it next, so the native call and
\* the settlement of the later call can come before those of the earlier
\* one as well as after them.
C27_NoDispatchOrder ==
    \A a, b \in Calls : BothAtLock(a, b) /\ mutex = NoOwner /\ ~Terminated =>
        ENABLED WorkerAcquire(a) /\ ENABLED WorkerAcquire(b)

\* C27 witness: the later call made its native call and settled its promise
\* while the earlier call on the same handle has not yet taken the lock.
C27_Witness ==
    \E a, b \in Calls :
        /\ a < b /\ w[a].pc = "start" /\ w[a].h = 0
        /\ w[b].pc = "done" /\ w[b].ncalls >= 1 /\ Settlements(b) = 1
        /\ ~w[b].stale /\ ~w[a].stale

\* A create operation of host thread i registers its handle in this step.
CreateSucceeds(i) ==
    cl[i].op \in CreateOps /\ cl[i].pc = "locked" /\ cl'[i].pc = "idle"

\* C28: the ID counter never decreases; each successful create,
\* createFromMsgpack or createFromCache increments it by exactly one and no
\* other step changes it (a failed create, dispose, cancel, the other
\* synchronous operations, the workers); the numeric suffixes of the issued
\* IDs are strictly increasing in the order of registration.
C28_CounterMonotonic ==
    /\ [](\A a, b \in 1..Len(issued) : a < b => issued[a] < issued[b])
    /\ [](handleCounter = Len(issued))
    /\ [][ /\ handleCounter' >= handleCounter
           /\ (\E i \in Callers : CreateSucceeds(i)) =>
                 /\ handleCounter' = handleCounter + 1
                 /\ issued' = Append(issued, handleCounter)
           /\ ~(\E i \in Callers : CreateSucceeds(i)) => handleCounter' = handleCounter ]_vars

\* C28 witness: two IDs were issued by different create operations, the
\* first handle was disposed in between, and a create has failed.
C28_Witness ==
    /\ issued = <<0, 1>> /\ Freed # {}
    /\ DOMAIN handles = {1}
    /\ \E i \in Callers : cl[i].ret.op = "createFromCache" /\ cl[i].ret.raised

\* Thread t is the only thread inside a handle-taking native entry point.
OnlyNative(t) == \A x \in DOMAIN freeCount : NativeOn(x) \subseteq {t}

\* C29: evaluateAsync is atomic with respect to the registry: from its
\* json_eval_evaluate call to the return of its json_eval_get_evaluated_schema
\* call the worker holds the registry lock, no other thread is inside a
\* handle-taking native entry point of any handle, and no step of another
\* thread enters one, frees an instance or changes the handle table.
C29_EvaluateAtomic ==
    /\ [](\A c \in Calls : w[c].op = "evaluateAsync" /\ w[c].pc \in NativePcs =>
            HoldsLock(WorkerTid(c)) /\ OnlyNative(WorkerTid(c)))
    /\ [][\A c \in Calls : w[c].op = "evaluateAsync" /\ w[c].pc \in NativePcs =>
            /\ handles' = handles /\ freeCount' = freeCount /\ handleCounter' = handleCounter
            /\ \A b \in Calls \ {c} : w'[b].pc \in NativePcs => FALSE
            /\ \A i \in Callers : cl'[i].pc # "native"
            /\ w'[c].pc = "native2" => mutex' = WorkerTid(c)]_vars

\* C29 witness: an evaluateAsync call is inside its second native call while
\* another worker and a dispose of the same handle wait for the lock.
C29_Witness ==
    \E c, b \in Calls, i \in Callers :
        /\ w[c].op = "evaluateAsync" /\ w[c].pc = "native2"
        /\ b # c /\ w[b].pc = "start" /\ w[b].h = w[c].h
        /\ cl[i].pc = "wait_lock" /\ cl[i].op = "dispose" /\ cl[i].h = w[c].h

\* C30: in evaluateAsync a failure of the first step (json_eval_evaluate) is
\* never followed by the second step (json_eval_get_evaluated_schema), and the
\* promise of such a call is rejected with the first step's message and never
\* resolved; a promise is resolved only if both steps were made and succeeded.
C30_FirstFailureRejects ==
    \A c \in Calls : w[c].op = "evaluateAsync" =>
        /\ w[c].failed /\ Len(w[c].descs) = 1 => w[c].ncalls = 1 /\ w[c].pc \notin NativePcs
        /\ Ended(c) /\ w[c].failed /\ Len(w[c].descs) = 1 =>
              /\ w[c].tok.rejected = 1 /\ w[c].tok.resolved = 0
              /\ w[c].tok.last.msg = w[c].error
        /\ w[c].tok.resolved = 1 => w[c].ncalls = 2 /\ ~w[c].failed

\* C30, supporting: the second step is never invoked after a failed first
\* step, and a first failure whose message is not empty is rejected with it.
C30_SecondStepSkipped ==
    \A c \in Calls : w[c].op = "evaluateAsync" /\ w[c].failed /\ Len(w[c].descs) = 1 =>
        /\ w[c].ncalls = 1 /\ w[c].pc \notin NativePcs
        /\ Ended(c) /\ w[c].error # "" =>
              /\ w[c].tok.rejected = 1 /\ w[c].tok.resolved = 0
              /\ w[c].tok.last.msg = w[c].error

\* C31: runAsync invokes the callback exactly once per dispatched operation,
\* as (result, "") or as ("", message) and never both, also when the callback
\* raises an exception during its first invocation.
C31_CallbackOnce ==
    \A c \in Calls :
        /\ w[c].invocations <= 1
        /\ Ended(c) => w[c].invocations = 1

\* C31, supporting: a callback that does not raise is invoked exactly once.
C31_OnceUnlessCallbackRaises ==
    \A c \in Calls : Ended(c) /\ EventIdx(c, "throw") = {} =>
        w[c].invocations = 1

\* The positions in the history of call c at which the callback touches the
\* promise or the VM.
CallbackIdx(c) == SettleIdx(c) \cup EventIdx(c, "attach")

\* C32: a worker never settles a token while it holds the registry lock: the
\* lock taken inside the worker body was released before the callback is
\* entered, the worker does not own the lock once its callback has run, and
\* the step that runs the callback leaves the lock free for other threads.
C32_SettlesUnlocked ==
    /\ [](\A c \in Calls :
            /\ \A k \in CallbackIdx(c) : \A l \in EventIdx(c, "lock") :
                  /\ l < k
                  /\ \E u \in EventIdx(c, "unlock") : l < u /\ u < k
            /\ w[c].invocations > 0 => ~HoldsLock(WorkerTid(c)))
    /\ [][\A c \in Calls : w[c].invocations = 0 /\ w'[c].invocations > 0 =>
            mutex' = NoOwner]_vars

\* C32 witness: a worker that took the lock has settled its promise and a
\* synchronous dispose of a live handle then holds the registry lock.
C32_Witness ==
    \E c \in Calls, i \in Callers :
        /\ w[c].pc = "done" /\ EventIdx(c, "lock") # {} /\ SettleIdx(c) # {}
        /\ w[c].ncalls > 0
        /\ cl[i].op = "dispose" /\ cl[i].pc = "native" /\ HoldsLock(CallerTid(i))

\* C33: the registry lock is released on every path out of every operation
\* that takes it, and the system is deadlock-free: under fair scheduling and
\* terminating native calls a held lock is eventually free again and every
\* worker and every synchronous caller that waits for it eventually
\* acquires it.
C33_LockLive ==
    /\ (mutex # NoOwner) ~> (mutex = NoOwner)
    /\ \A c \in Calls : (w[c].pc = "start") ~> HoldsLock(WorkerTid(c))
    /\ \A i \in Hosts : (cl[i].pc = "wait_lock") ~> HoldsLock(CallerTid(i))

\* C33, supporting: a held lock is eventually free again, and no thread that
\* has left its operation still owns it.
C33_LockReleased ==
    /\ (mutex # NoOwner) ~> (mutex = NoOwner)
    /\ [](\A c \in Calls : Ended(c) \/ w[c].pc \in {"unused", "start"} => ~HoldsLock(WorkerTid(c)))
    /\ [](\A i \in Callers : cl[i].pc \in {"idle", "ctor", "wait_lock"} => ~HoldsLock(CallerTid(i)))

\* C33, supporting: as long as the process has not been terminated, a thread
\* that waits for the lock eventually acquires it.
C33_WaitersServedUnlessTerminated ==
    /\ \A c \in Calls : (w[c].pc = "start") ~> (HoldsLock(WorkerTid(c)) \/ Terminated)
    /\ \A i \in Hosts : (cl[i].pc = "wait_lock") ~> (HoldsLock(CallerTid(i)) \/ Terminated)

\* The IDs that create calls have returned so far.
IssuedIds == {issued[k] : k \in 1..Len(issued)}

\* C34: a stale handle never addresses a different instance.  A create call
\* registers its own instance under the ID it returns; the instance under a
\* registered ID never changes; an ID that was issued and erased is never
\* registered again; and an operation carrying ID h enters its native call on
\* the instance registered under h, or makes no native call when h is not
\* registered.
C34_StaleHandleNeverRebinds ==
    /\ [][\A i \in Callers : CreateSucceeds(i) =>
            /\ cl'[i].ret.val \notin IssuedIds
            /\ cl'[i].ret.val \in DOMAIN handles'
            /\ handles'[cl'[i].ret.val] = cl[i].inst
            /\ freeCount[cl[i].inst] = 0
            /\ \A h \in DOMAIN handles : handles[h] # cl[i].inst]_vars
    /\ [][\A h \in IssuedIds :
            /\ h \in DOMAIN handles /\ h \in DOMAIN handles' => handles'[h] = handles[h]
            /\ h \notin DOMAIN handles => h \notin DOMAIN handles']_vars
    /\ [][\A c \in Calls :
            /\ w[c].pc = "locked" /\ w'[c].pc \in NativePcs =>
                  w[c].h \in DOMAIN handles /\ w'[c].inst = handles[w[c].h]
            /\ w[c].pc = "locked" /\ w[c].h \notin DOMAIN handles =>
                  /\ w'[c].pc \notin NativePcs /\ w'[c].ncalls = 0
                  /\ w'[c].pc # "locked" => w'[c].error = "Invalid handle"]_vars
    /\ [][\A i \in Callers :
            /\ cl[i].pc = "locked" /\ cl'[i].pc = "native" =>
                  cl[i].h \in DOMAIN handles /\ cl'[i].inst = handles[cl[i].h]
            /\ cl[i].pc = "locked" /\ cl[i].op \in SyncOps /\ cl[i].h \notin DOMAIN handles =>
                  cl'[i].pc # "native"]_vars
    /\ [](\A c \in Calls : w[c].stale => w[c].ncalls = 0)

\* C34 witness: "handle_0" was disposed, a later create registered a new
\* instance under "handle_1", and a call dispatched on the stale "handle_0"
\* afterwards has been rejected as an invalid handle.
C34_Witness ==
    \E c \in Calls :
        /\ issued = <<0, 1>> /\ DOMAIN handles = {1} /\ freeCount[handles[1]] = 0
        /\ Freed # {}
        /\ w[c].stale /\ w[c].pc = "done" /\ w[c].ncalls = 0
        /\ w[c].tok.rejected = 1 /\ w[c].tok.last.msg = "Invalid handle"
        /\ "lock" \in {w[c].events[k] : k \in 1..Len(w[c].events)}

\* The subform-scoped counterpart of each primary operation.
SubformOf ==
    [ evaluateAsync |-> "evaluateSubformAsync",
      validateAsync |-> "validateSubformAsync",
      evaluateDependentsAsync |-> "evaluateDependentsSubformAsync",
      resolveLayoutAsync |-> "resolveLayoutSubformAsync",
      getEvaluatedSchemaAsync |-> "getEvaluatedSchemaSubformAsync",
      getSchemaValueAsync |-> "getSchemaValueSubformAsync",
      getEvaluatedSchemaWithoutParamsAsync |-> "getEvaluatedSchemaWithoutParamsSubformAsync",
      getEvaluatedSchemaByPathAsync |-> "getEvaluatedSchemaByPathSubformAsync",
      getEvaluatedSchemaByPathsAsync |-> "getEvaluatedSchemaByPathsSubformAsync",
      getSchemaByPathAsync |-> "getSchemaByPathSubformAsync",
      getSchemaByPathsAsync |-> "getSchemaByPathsSubformAsync" ]

\* Calls c and b ended after native calls with the same outcome: the same
\* failure, or success with the same payload (empty or not).
SameOutcome(c, b) ==
    /\ w[c].pc = "done" /\ w[b].pc = "done"
    /\ w[c].ncalls > 0 /\ w[b].ncalls > 0
    /\ w[c].failed = w[b].failed
    /\ w[c].noMsg = w[b].noMsg
    /\ w[c].failed => w[c].error = w[b].error
    /\ ~w[c].failed => w[c].data = w[b].data

\* Calls c and b settled their promises alike, the call-site code apart.
SameSettlement(c, b) ==
    /\ w[c].tok.resolved = w[b].tok.resolved
    /\ w[c].tok.rejected = w[b].tok.rejected
    /\ w[c].tok.last.kind = w[b].tok.last.kind
    /\ w[c].tok.last.msg = w[b].tok.last.msg
    /\ w[c].tok.last.value = w[b].tok.last.value

\* C35: each subform-scoped operation marshals results exactly like its
\* primary counterpart: after the same native outcome (failure, success with
\* payload p, success with empty payload) the primary operation and its
\* subform counterpart resolve or reject with the same value.
C35_SubformMarshalsAlike ==
    \A c, b \in Calls :
        w[c].op \in DOMAIN SubformOf /\ w[b].op = SubformOf[w[c].op] /\ SameOutcome(c, b) =>
            SameSettlement(c, b)

\* C35, supporting: the pairs other than validate and evaluate-dependents
\* settle alike, and every pair does after a failure or a non-empty payload.
C35_AlikeButTwoDefaults ==
    \A c, b \in Calls :
        /\ w[c].op \in DOMAIN SubformOf /\ w[b].op = SubformOf[w[c].op] /\ SameOutcome(c, b)
        /\ w[c].op \in {"validateAsync", "evaluateDependentsAsync"} => ~w[c].emptyPayload
        => SameSettlement(c, b)

\* The operations that neither raise nor call the engine on an absent ID.
QuietOps == {"isCacheEnabled", "cancel"}

\* C36: on an unknown or disposed handle isCacheEnabled returns false and
\* cancel returns normally: neither raises, neither makes a native call, and
\* the step that ends the call leaves the handle table, the counter and the
\* instances unchanged; while the call holds the lock no other step changes
\* them either.
C36_QuietOnAbsentHandle ==
    /\ [](\A i \in Callers : cl[i].ret.op \in QuietOps /\ ~cl[i].ret.found =>
            /\ ~cl[i].ret.raised /\ cl[i].ret.msg = ""
            /\ cl[i].ret.val = 0
            /\ cl[i].ret.ncalls = 0)
    /\ [][\A i \in Callers :
            cl[i].op \in QuietOps /\ cl[i].pc = "locked" /\ ~HandleFound(cl[i].h)
            /\ cl'[i] # cl[i] =>
                /\ cl'[i].pc = "idle"
                /\ cl'[i].ret.op = cl[i].op /\ ~cl'[i].ret.found
                /\ handles' = handles /\ handleCounter' = handleCounter
                /\ freeCount' = freeCount /\ issued' = issued
                /\ mutex' = NoOwner]_vars
    /\ [][\A i \in Callers :
            cl[i].op \in QuietOps /\ cl[i].pc = "locked" /\ ~HandleFound(cl[i].h) =>
                handles' = handles /\ handleCounter' = handleCounter /\ freeCount' = freeCount]_vars

\* C36 witness: isCacheEnabled has returned false for a disposed handle and
\* cancel has returned for an ID that no create ever issued.
C36_Witness ==
    \E i, j \in Callers :
        /\ cl[i].ret.op = "isCacheEnabled" /\ ~cl[i].ret.found /\ cl[i].ret.stale
        /\ cl[j].ret.op = "cancel" /\ ~cl[j].ret.found /\ ~cl[j].ret.stale
        /\ handleCounter = 1 /\ DOMAIN handles = {}

\* Some thread other than t holds the registry lock inside a native call.
LockedNativeElsewhere(t) ==
    \/ \E b \in Calls : WorkerTid(b) # t /\ w[b].pc \in NativePcs /\ HoldsLock(WorkerTid(b))
    \/ \E j \in Callers : CallerTid(j) # t /\ cl[j].pc = "native" /\ HoldsLock(CallerTid(j))

\* Two evaluateLogicAsync calls whose native calls returned the same descriptor.
SameLogicDescriptor(c, b) ==
    /\ w[c].op = "evaluateLogicAsync" /\ w[b].op = "evaluateLogicAsync"
    /\ w[c].pc = "done" /\ w[b].pc = "done"
    /\ w[c].failed = w[b].failed /\ w[c].noMsg = w[b].noMsg /\ w[c].data = w[b].data
    /\ w[c].failed /\ ~w[c].noMsg => w[c].error = w[b].error

\* C37: the native entry points that take no handle run without the
\* registry lock.  A constructor and json_eval_evaluate_logic_pure are
\* entered and left without owning the lock and can make their step while
\* another thread holds the lock inside a native call; they leave the
\* registry alone; and evaluateLogicAsync hands its callback an outcome that
\* depends on the descriptor alone, whatever handles exist or were disposed.
C37_HandleFreeCallsUnlocked ==
    /\ [](\A c \in Calls : w[c].op = "evaluateLogicAsync" =>
            /\ ~HoldsLock(WorkerTid(c))
            /\ EventIdx(c, "lock") = {}
            /\ w[c].pc = "logic_start" => ENABLED LogicCall(c)
            /\ w[c].pc = "logic_native" => \A d \in LogicDescs : ENABLED LogicReturn(c, d)
            /\ w[c].pc = "done" =>
                  /\ w[c].invocations = 1 /\ w[c].ncalls = 1 /\ w[c].descs = <<1>>
                  /\ w[c].threw = w[c].failed
                  /\ w[c].failed => w[c].result = <<>> /\ (w[c].noMsg => w[c].error = "Unknown error")
                  /\ ~w[c].failed =>
                        /\ w[c].error = ""
                        /\ w[c].result = IF w[c].emptyPayload THEN TxtNull ELSE w[c].data[1])
    /\ [](\A c, b \in Calls : SameLogicDescriptor(c, b) =>
            w[c].threw = w[b].threw /\ w[c].result = w[b].result /\ w[c].error = w[b].error)
    /\ [](\A i \in Callers : cl[i].pc = "ctor" =>
            /\ ~HoldsLock(CallerTid(i))
            /\ ENABLED CtorReturn(i, FALSE)
            /\ nextInst <= MaxCreates => ENABLED CtorReturn(i, TRUE))
    /\ [][\A c \in Calls : w[c].op = "evaluateLogicAsync" /\ w'[c] # w[c] =>
            /\ mutex' = mutex /\ handles' = handles /\ handleCounter' = handleCounter
            /\ freeCount' = freeCount /\ cl' = cl]_vars
    /\ [][\A i \in Callers : cl[i].pc = "ctor" /\ cl'[i] # cl[i] =>
            mutex' = mutex /\ handles' = handles /\ handleCounter' = handleCounter]_vars

\* C37 witness: json_eval_evaluate_logic_pure and a constructor are both
\* executing while an evaluateAsync worker holds the lock inside its native
\* call, after "handle_0" was disposed.
C37_Witness ==
    \E c \in Calls, i \in Callers :
        /\ w[c].op = "evaluateLogicAsync" /\ w[c].pc = "logic_native"
        /\ LockedNativeElsewhere(WorkerTid(c))
        /\ cl[i].pc = "ctor"
        /\ LockedNativeElsewhere(CallerTid(i))
        /\ Freed # {}

====
